---- MODULE Spec2Model ----
(***************************************************************************)
(* A model of src/index.js, the WhatsApp order webhook.  The file holds    *)
(* two copies of the server: the first (lines 1-171, "A") and the second   *)
(* (lines 173-340, "B").  They share parseOrderAI, sendWhatsapp,           *)
(* generateInvoice and the POST pipeline up to the confirmation; they      *)
(* differ in the GET verification handler and in the confirmation sent.    *)
(*                                                                         *)
(* JavaScript values are tagged records.  Strings are sequences of         *)
(* one-character strings, so that toLowerCase and the string-to-number     *)
(* conversion are computed character by character.                         *)
(***************************************************************************)
EXTENDS Integers, Sequences, FiniteSets, TLC

\* ------------------------------------------------------------------ bounds
\* Quantities the model answers with range over -MaxQty..MaxQty.
MaxQty == 3
\* Date.now() ranges over 0..MaxClock.
MaxClock == 2
\* Number of POST deliveries in flight in the concurrent specification.
NumReq == 2

Reqs == 1..NumReq

\* ------------------------------------------------------- JavaScript values
Undefined == [t |-> "undefined"]
Null == [t |-> "null"]
NaN == [t |-> "nan"]
Infinity == [t |-> "infinity", neg |-> FALSE]
Num(n) == [t |-> "number", v |-> n]
Bool(b) == [t |-> "boolean", b |-> b]
Str(s) == [t |-> "string", s |-> s]
Arr(items) == [t |-> "array", items |-> items]
\* An object is a function from its own property names to values.
Obj(f) == [t |-> "object", f |-> f]
\* A value inherited from Object.prototype (Object, Object.prototype): an
\* object or function, truthy, on which no own property of interest exists.
Inherited == [t |-> "inherited"]

\* ToBoolean, as applied by `!x`, `x && y` and `if (x)`.
Truthy(v) ==
  CASE v.t = "undefined" -> FALSE
    [] v.t = "null" -> FALSE
    [] v.t = "nan" -> FALSE
    [] v.t = "boolean" -> v.b
    [] v.t = "number" -> v.v # 0
    [] v.t = "string" -> v.s # <<>>
    [] OTHER -> TRUE

\* Whether `v.p` throws a TypeError (property access on undefined or null).
AccessThrows(v) == v.t \in {"undefined", "null"}

\* `v.p` for a value on which property access does not throw.
Get(v, p) ==
  IF v.t = "object" /\ p \in DOMAIN v.f THEN v.f[p] ELSE Undefined

\* `a[0]`: the first element of an array, undefined when it is empty.
First(a) ==
  IF a.t = "array" /\ Len(a.items) > 0 THEN a.items[1] ELSE Undefined

\* ------------------------------------------------------------- characters
UpperChars ==
  << "A", "B", "C", "D", "E", "F", "G", "H", "I", "J", "K", "L", "M",
     "N", "O", "P", "Q", "R", "S", "T", "U", "V", "W", "X", "Y", "Z" >>
LowerChars ==
  << "a", "b", "c", "d", "e", "f", "g", "h", "i", "j", "k", "l", "m",
     "n", "o", "p", "q", "r", "s", "t", "u", "v", "w", "x", "y", "z" >>
DigitChars == << "0", "1", "2", "3", "4", "5", "6", "7", "8", "9" >>

IndexIn(seq, c) ==
  IF \E i \in 1..Len(seq) : seq[i] = c
  THEN CHOOSE i \in 1..Len(seq) : seq[i] = c
  ELSE 0

LowerChar(c) ==
  IF IndexIn(UpperChars, c) # 0 THEN LowerChars[IndexIn(UpperChars, c)] ELSE c

\* The lookup key taken as typed, without toLowerCase.
ToLowerCaseOmitted(s) == s

\* String.prototype.toLowerCase on the characters of a string.
ToLowerCase(s) == [i \in 1..Len(s) |-> LowerChar(s[i])]

IsDigits(s) ==
  /\ Len(s) > 0
  /\ \A i \in 1..Len(s) : IndexIn(DigitChars, s[i]) # 0

RECURSIVE DigitsValue(_)
DigitsValue(s) ==
  IF Len(s) = 0 THEN 0
  ELSE 10 * DigitsValue(SubSeq(s, 1, Len(s) - 1))
         + (IndexIn(DigitChars, s[Len(s)]) - 1)

\* ToNumber on a string: "" is 0, a decimal integer literal (with an optional
\* sign) is its value, anything else is NaN.
StringToNumber(s) ==
  IF s = <<>> THEN Num(0)
  ELSE IF IsDigits(s) THEN Num(DigitsValue(s))
  ELSE IF s[1] = "-" /\ IsDigits(Tail(s)) THEN Num(0 - DigitsValue(Tail(s)))
  ELSE NaN

\* ToNumber, as applied to the operands of `*`.
ToNumber(v) ==
  CASE v.t = "number" -> v
    [] v.t = "infinity" -> v
    [] v.t = "null" -> Num(0)
    [] v.t = "boolean" -> Num(IF v.b THEN 1 ELSE 0)
    [] v.t = "string" -> StringToNumber(v.s)
    [] v.t = "array" -> IF v.items = <<>> THEN Num(0) ELSE NaN
    [] OTHER -> NaN

\* `a * b` on two JavaScript values.
Multiply(a, b) ==
  LET x == ToNumber(a)
      y == ToNumber(b)
  IN  CASE x.t = "nan" \/ y.t = "nan" -> NaN
        [] x.t = "infinity" /\ y.t = "infinity" ->
             [t |-> "infinity", neg |-> (x.neg # y.neg)]
        [] x.t = "infinity" ->
             IF y.v = 0 THEN NaN
             ELSE [t |-> "infinity", neg |-> (x.neg # (y.v < 0))]
        [] y.t = "infinity" ->
             IF x.v = 0 THEN NaN
             ELSE [t |-> "infinity", neg |-> (y.neg # (x.v < 0))]
        [] OTHER -> Num(x.v * y.v)

\* ---------------------------------------------------------------- strings
S_sugar == << "s", "u", "g", "a", "r" >>
S_Sugar == << "S", "u", "g", "a", "r" >>
S_SUGAR == << "S", "U", "G", "A", "R" >>
S_oil == << "o", "i", "l" >>
S_OIL == << "O", "I", "L" >>
S_rice == << "r", "i", "c", "e" >>
S_Rice == << "R", "i", "c", "e" >>
S_flour == << "f", "l", "o", "u", "r" >>
S_constructor == << "c", "o", "n", "s", "t", "r", "u", "c", "t", "o", "r" >>
S_toString == << "t", "o", "S", "t", "r", "i", "n", "g" >>
S_valueOf == << "v", "a", "l", "u", "e", "O", "f" >>
S_proto == << "_", "_", "p", "r", "o", "t", "o", "_", "_" >>
S_kg == << "k", "g" >>
S_2 == << "2" >>
S_two == << "t", "w", "o" >>
S_subscribe == << "s", "u", "b", "s", "c", "r", "i", "b", "e" >>
S_unsubscribe == << "u", "n" >> \o S_subscribe
S_secret == << "s", "3", "c", "r", "3", "t" >>
S_wrong == << "w", "r", "o", "n", "g" >>
S_challenge == << "1", "1", "5", "8" >>
S_from == << "9", "1", "9", "8" >>
S_text == << "2", " ", "k", "g", " ", "s", "u", "g", "a", "r" >>

\* ---------------------------------------------------------------- catalog
\* The own properties of PRODUCTS.
CatalogNames == {S_sugar, S_oil, S_rice}

CatalogPrice(name) ==
  CASE name = S_sugar -> 40
    [] name = S_oil -> 120
    [] name = S_rice -> 60

\* The property names PRODUCTS inherits from Object.prototype.
ObjectPrototypeNames ==
  { S_constructor, S_proto, S_toString, S_valueOf,
    << "h", "a", "s", "O", "w", "n", "P", "r", "o", "p", "e", "r", "t", "y" >>,
    << "i", "s", "P", "r", "o", "t", "o", "t", "y", "p", "e", "O", "f" >>,
    << "t", "o", "L", "o", "c", "a", "l", "e", "S", "t", "r", "i", "n", "g" >> }

\* PRODUCTS[key]: an own entry, an inherited value, or undefined.
PRODUCTS(key) ==
  IF key \in CatalogNames THEN Obj([price |-> Num(CatalogPrice(key))])
  ELSE IF key \in ObjectPrototypeNames THEN Inherited
  ELSE Undefined

\* --------------------------------------------------------------- variables
VARIABLES
  variant,      \* which copy of the server runs: "A" or "B"
  verifyToken,  \* process.env.WHATSAPP_VERIFY_TOKEN
  gReq,         \* the GET request: hub.mode, hub.verify_token, hub.challenge
  gRes,         \* the GET response: status (0: none yet) and body
  now,          \* Date.now()
  crashed,      \* the process has exited on an uncaught exception
  pc,           \* each POST delivery's position in the handler
  data,         \* each delivery's req.body
  parsed,       \* the value parseOrderAI returned
  order,        \* the order object, once built
  fileName,     \* the clock value in the invoice's file name, once chosen
  outcome,      \* the branch of the handler the delivery took
  pending,      \* the outbound message whose send is awaited
  status,       \* the HTTP status sent (0: none yet)
  responses,    \* how many HTTP responses were sent
  aiCalls,      \* how many calls to the model each delivery made
  notified,     \* how the awaited send settled: "none", "ok" or "failed"
  sent,         \* the messages the messaging platform accepted, in order
  files         \* the invoice files written: name, writer and text lines

vars ==
  << variant, verifyToken, gReq, gRes, now, crashed, pc, data, parsed, order,
     fileName, outcome, pending, status, responses, aiCalls, notified, sent, files >>

postVars ==
  << now, crashed, pc, data, parsed, order, fileName, outcome, pending,
     status, responses, aiCalls, notified, sent, files >>

getVars == << gReq, gRes >>

Variants == {"A", "B"}

\* ------------------------------------------------- GET /webhook/whatsapp
NoResponse == [status |-> 0, body |-> Undefined]

\* The first copy: 400 unless mode and token are both truthy.
VerifyA(req, secret) ==
  IF Truthy(req.mode) /\ Truthy(req.token)
  THEN IF req.mode = Str(S_subscribe) /\ req.token = secret
       THEN [status |-> 200, body |-> req.challenge]
       ELSE [status |-> 403, body |-> Undefined]
  ELSE [status |-> 400, body |-> Undefined]

\* The second copy: no 400 branch.
VerifyB(req, secret) ==
  IF req.mode = Str(S_subscribe) /\ req.token = secret
  THEN [status |-> 200, body |-> req.challenge]
  ELSE [status |-> 403, body |-> Undefined]

Verify ==
  /\ gRes = NoResponse
  /\ gRes' = IF variant = "A" THEN VerifyA(gReq, verifyToken)
             ELSE VerifyB(gReq, verifyToken)
  /\ UNCHANGED << variant, verifyToken, gReq, postVars >>

QueryValues(present) == {Undefined, Str(<<>>)} \cup {Str(s) : s \in present}

\* ------------------------------------------------------- webhook deliveries
EmptyObject == Obj(<< >>)
TextOf(body) == Obj([body |-> body])
Message(text) == Obj([from |-> Str(S_from), text |-> text])
MessageNoText == Obj([from |-> Str(S_from)])
Value(messages) == Obj([messages |-> messages])
Change(value) == Obj([value |-> value])
Entry(changes) == Obj([changes |-> changes])
Data(entry) == Obj([entry |-> entry])
Delivery(value) == Data(Arr(<< Entry(Arr(<< Change(value) >>)) >>))

\* Deliveries that carry a message.
MessageBodies ==
  { Delivery(Value(Arr(<< Message(TextOf(Str(S_text))) >>))),
    Delivery(Value(Arr(<< Message(TextOf(Str(<< >>))) >>))),
    Delivery(Value(Arr(<< MessageNoText >>))) }

\* Deliveries without the path entry[0].changes[0].value.messages[0].
OtherBodies ==
  { EmptyObject,                          \* no entry
    Data(Arr(<< >>)),                     \* entry: []
    Data(Arr(<< EmptyObject >>)),         \* an entry without changes
    Data(Arr(<< Entry(Arr(<< >>)) >>)),   \* changes: []
    Data(Arr(<< Entry(Arr(<< EmptyObject >>)) >>)),  \* a change without value
    Delivery(EmptyObject),                \* a value without messages
    Delivery(Value(Arr(<< >>))) }         \* messages: []

Bodies == MessageBodies \cup OtherBodies

Routed(kind, from, text) == [kind |-> kind, from |-> from, text |-> text]

\* The handler from `const data = req.body` to the call of parseOrderAI:
\* "ignore" when the condition is falsy, "throw" when evaluating it (or
\* msg.from) raises a TypeError, "message" with from and text otherwise.
Route(d) ==
  LET entry == Get(d, "entry")
      entry0 == First(entry)
      changes == Get(entry0, "changes")
      change0 == First(changes)
      value == Get(change0, "value")
      messages == Get(value, "messages")
      msg == First(messages)
      text == Get(msg, "text")
      body == IF AccessThrows(text) THEN Undefined ELSE Get(text, "body")
  IN  IF ~Truthy(entry) THEN Routed("ignore", Undefined, Undefined)
      ELSE IF AccessThrows(entry0) THEN Routed("throw", Undefined, Undefined)
      ELSE IF ~Truthy(changes) THEN Routed("ignore", Undefined, Undefined)
      ELSE IF AccessThrows(change0) THEN Routed("throw", Undefined, Undefined)
      ELSE IF AccessThrows(value) THEN Routed("throw", Undefined, Undefined)
      ELSE IF ~Truthy(messages) THEN Routed("ignore", Undefined, Undefined)
      ELSE IF AccessThrows(msg) THEN Routed("throw", Undefined, Undefined)
      ELSE Routed("message", Get(msg, "from"),
                  IF Truthy(body) THEN body ELSE Str(<< >>))

\* ---------------------------------------------------------- the model call
\* What model.generateContent(prompt) gives: a rejection, or a text, which
\* either is not JSON or is the JSON text of `value`.
AIError == [kind |-> "error", json |-> FALSE, value |-> Undefined]
AINonJSON == [kind |-> "text", json |-> FALSE, value |-> Undefined]
AIJSON(v) == [kind |-> "text", json |-> TRUE, value |-> v]

\* An object literal with the given fields; Undefined leaves the field out.
OrderObject(p, q, u) ==
  LET all == [product |-> p, quantity |-> q, unit |-> u]
  IN  Obj([k \in {x \in DOMAIN all : all[x] # Undefined} |-> all[k]])

ProductValues ==
  { Undefined, Null, Num(5) }
    \cup { Str(s) : s \in { S_sugar, S_Sugar, S_SUGAR, S_oil, S_OIL, S_rice,
                            S_Rice, S_flour, S_constructor, S_toString,
                            S_proto, << >> } }

QuantityValues ==
  { Undefined, Null, Infinity, Str(S_2), Str(S_two) }
    \cup { Num(n) : n \in (0 - MaxQty)..MaxQty }

UnitValues == { Undefined, Str(S_kg) }

JSONValues ==
  { Null, Num(0), Num(5), Bool(FALSE), Bool(TRUE), Str(<< >>), Str(S_sugar),
    Arr(<< >>) }
    \cup { OrderObject(p, q, u) :
             p \in ProductValues, q \in QuantityValues, u \in UnitValues }

AIResponses == { AIError, AINonJSON } \cup { AIJSON(v) : v \in JSONValues }

\* parseOrderAI: the parsed text, or null when the call or JSON.parse throws.
parseOrderAI(resp) ==
  IF resp.kind = "error" \/ ~resp.json THEN Null ELSE resp.value

\* ------------------------------------------------------- outbound messages
TextMessage(to, lit, args) ==
  [to |-> to, type |-> "text", lit |-> lit, args |-> args]

NotUnderstoodMessage(to) ==
  TextMessage(to, "Sorry, I couldn't understand the order.", << >>)

\* The not-found branch sending the text of the not-understood branch.
NotFoundMessageCopied(to) == NotUnderstoodMessage(to)

NotFoundMessage(to) == TextMessage(to, "Product not found.", << >>)

\* The first copy's confirmation: product and total in a text.
ConfirmationA(to, o, file) ==
  TextMessage(to, "Order confirmed! Product: ${order.product} Total: ${order.total}",
              << Get(o, "product"), Get(o, "total") >>)

\* The second copy's confirmation: a document link made of the file name.
ConfirmationB(to, o, file) ==
  [to |-> to, type |-> "document",
   lit |-> "https://yourdomain.com/${fileName}", args |-> << Str(file) >>]

NoMessage == [to |-> Undefined, type |-> "none", lit |-> "", args |-> << >>]

\* ----------------------------------------------------------------- pricing
\* `parsed.product.toLowerCase()` throws unless parsed.product is a string.
LowerThrows(p) == Get(p, "product").t # "string"

\* PRODUCTS[parsed.product.toLowerCase()]
Lookup(p) == PRODUCTS(ToLowerCase(Get(p, "product").s))

\* The order object literal.
BuildOrder(p, product) ==
  Obj([product |-> Get(p, "product"),
       quantity |-> Get(p, "quantity"),
       unit |-> Get(p, "unit"),
       price |-> Get(product, "price"),
       total |-> Multiply(Get(product, "price"), Get(p, "quantity"))])

RECURSIVE NatDigits(_)
NatDigits(n) ==
  IF n < 10 THEN << DigitChars[n + 1] >>
  ELSE NatDigits(n \div 10) \o << DigitChars[(n % 10) + 1] >>

\* `invoice-${Date.now()}.pdf`
InvoiceName(clock) ==
  << "i", "n", "v", "o", "i", "c", "e", "-" >> \o NatDigits(clock)
    \o << ".", "p", "d", "f" >>

\* generateInvoice: the file opened at `./${fileName}` and the text lines
\* written to the document from the order's fields.
generateInvoice(o, name, r) ==
  [name |-> name, by |-> r,
   lines |-> << Get(o, "product"), Get(o, "quantity"), Get(o, "unit"),
                Get(o, "price"), Get(o, "total") >>]

\* ------------------------------------------------- POST /webhook/whatsapp
\* res.sendStatus(code): the delivery is answered and the handler returns.
Respond(r, code) ==
  /\ status' = [status EXCEPT ![r] = code]
  /\ responses' = [responses EXCEPT ![r] = @ + 1]
  /\ pc' = [pc EXCEPT ![r] = "done"]

\* `await sendWhatsapp(from, ...)` begins; the handler is suspended.
BeginSend(r, msg) ==
  /\ pending' = [pending EXCEPT ![r] = msg]
  /\ pc' = [pc EXCEPT ![r] = "awaitNotify"]

\* A delivery arrives: the handler runs to `await parseOrderAI(text)`, to
\* `res.sendStatus(200)` when there is no message, or into the catch block.
Receive(r, d) ==
  /\ ~crashed
  /\ pc[r] = "start"
  /\ data' = [data EXCEPT ![r] = d]
  /\ IF Route(d).kind = "message"
     THEN /\ aiCalls' = [aiCalls EXCEPT ![r] = @ + 1]
          /\ pc' = [pc EXCEPT ![r] = "awaitAI"]
          /\ UNCHANGED << outcome, status, responses >>
     ELSE /\ outcome' = [outcome EXCEPT ![r] =
                           IF Route(d).kind = "ignore" THEN "Ignored"
                           ELSE "Fault"]
          /\ Respond(r, IF Route(d).kind = "ignore" THEN 200 ELSE 500)
          /\ UNCHANGED aiCalls
  /\ UNCHANGED << variant, getVars, verifyToken, now, crashed, parsed, order,
                  fileName, pending, notified, sent, files >>

\* parseOrderAI returns: the handler runs on to its next await, which is the
\* send of a failure text or the rendering of the invoice, or into the catch
\* block when parsed.product.toLowerCase() throws.
AIReturn(r, resp) ==
  /\ ~crashed
  /\ pc[r] = "awaitAI"
  /\ LET p == parseOrderAI(resp)
         from == Route(data[r]).from
     IN  /\ parsed' = [parsed EXCEPT ![r] = p]
         /\ IF ~Truthy(p)
            THEN /\ outcome' = [outcome EXCEPT ![r] = "ExtractionFailed"]
                 /\ BeginSend(r, NotUnderstoodMessage(from))
                 /\ UNCHANGED << order, fileName, files, status, responses >>
            ELSE IF LowerThrows(p)
            THEN /\ outcome' = [outcome EXCEPT ![r] = "Fault"]
                 /\ Respond(r, 500)
                 /\ UNCHANGED << order, fileName, files, pending >>
            ELSE IF ~Truthy(Lookup(p))
            THEN /\ outcome' = [outcome EXCEPT ![r] = "ProductNotFound"]
                 /\ BeginSend(r, NotFoundMessage(from))
                 /\ UNCHANGED << order, fileName, files, status, responses >>
            ELSE /\ outcome' = [outcome EXCEPT ![r] = "Priced"]
                 /\ order' = [order EXCEPT ![r] = BuildOrder(p, Lookup(p))]
                 /\ fileName' = [fileName EXCEPT ![r] = InvoiceName(now)]
                 /\ files' = files \cup
                      {generateInvoice(BuildOrder(p, Lookup(p)),
                                       InvoiceName(now), r)}
                 /\ pc' = [pc EXCEPT ![r] = "awaitInvoice"]
                 /\ UNCHANGED << pending, status, responses >>
  /\ UNCHANGED << variant, getVars, verifyToken, now, crashed, data, aiCalls,
                  notified, sent >>

\* The document emits "finish": generateInvoice's promise resolves and the
\* handler runs on to the await of the confirmation's send.
InvoiceFinish(r) ==
  /\ ~crashed
  /\ pc[r] = "awaitInvoice"
  /\ BeginSend(r, IF variant = "A"
                  THEN ConfirmationA(Route(data[r]).from, order[r], fileName[r])
                  ELSE ConfirmationB(Route(data[r]).from, order[r], fileName[r]))
  /\ UNCHANGED << variant, getVars, verifyToken, now, crashed, data, parsed,
                  order, fileName, outcome, status, responses, aiCalls, notified, sent,
                  files >>

\* Writing the file fails: the write stream emits "error", which has no
\* listener, and the promise has no reject path; the exception is uncaught
\* and the process exits.
WriteError(r) ==
  /\ ~crashed
  /\ pc[r] = "awaitInvoice"
  /\ crashed' = TRUE
  /\ UNCHANGED << variant, getVars, verifyToken, now, pc, data, parsed, order,
                  fileName, outcome, pending, status, responses, aiCalls, notified, sent,
                  files >>

\* The awaited send settles: fulfilled, the handler answers 200; rejected,
\* the catch block answers 500.
NotifyReturn(r, ok) ==
  /\ ~crashed
  /\ pc[r] = "awaitNotify"
  /\ notified' = [notified EXCEPT ![r] = IF ok THEN "ok" ELSE "failed"]
  /\ sent' = IF ok THEN Append(sent, [by |-> r, msg |-> pending[r]]) ELSE sent
  /\ Respond(r, IF ok THEN 200 ELSE 500)
  /\ UNCHANGED << variant, getVars, verifyToken, now, crashed, data, parsed,
                  order, fileName, outcome, pending, aiCalls, files >>

\* A millisecond passes.
Tick ==
  /\ ~crashed
  /\ now < MaxClock
  /\ now' = now + 1
  /\ UNCHANGED << variant, getVars, verifyToken, crashed, pc, data, parsed,
                  order, fileName, outcome, pending, status, responses,
                  aiCalls, notified, sent, files >>

\* --------------------------------------------------------- specifications
NoRequest == [mode |-> Undefined, token |-> Undefined, challenge |-> Undefined]

InitPost(started) ==
  /\ now = 0
  /\ crashed = FALSE
  /\ pc = [r \in Reqs |-> IF r \in started THEN "start" ELSE "off"]
  /\ data = [r \in Reqs |-> EmptyObject]
  /\ parsed = [r \in Reqs |-> Undefined]
  /\ order = [r \in Reqs |-> Undefined]
  /\ fileName = [r \in Reqs |-> << >>]
  /\ outcome = [r \in Reqs |-> "None"]
  /\ pending = [r \in Reqs |-> NoMessage]
  /\ status = [r \in Reqs |-> 0]
  /\ responses = [r \in Reqs |-> 0]
  /\ aiCalls = [r \in Reqs |-> 0]
  /\ notified = [r \in Reqs |-> "none"]
  /\ sent = << >>
  /\ files = {}

\* One POST delivery, with every body and every answer of the model.
Init ==
  /\ variant \in Variants
  /\ verifyToken = Str(S_secret)
  /\ gReq = NoRequest
  /\ gRes = NoResponse
  /\ InitPost({1})

Next ==
  \/ \E r \in Reqs, d \in Bodies : Receive(r, d)
  \/ \E r \in Reqs, resp \in AIResponses : AIReturn(r, resp)
  \/ \E r \in Reqs : InvoiceFinish(r)
  \/ \E r \in Reqs : WriteError(r)
  \/ \E r \in Reqs, ok \in BOOLEAN : NotifyReturn(r, ok)
  \/ Tick

Spec == Init /\ [][Next]_vars

\* NumReq POST deliveries in flight at once, with a few bodies and answers.
ConcBodies ==
  { Delivery(Value(Arr(<< Message(TextOf(Str(S_text))) >>))), EmptyObject }

ConcResponses ==
  { AIError,
    AIJSON(OrderObject(Str(S_sugar), Num(2), Str(S_kg))),
    AIJSON(OrderObject(Str(S_flour), Num(1), Str(S_kg))) }

InitConc ==
  /\ variant \in Variants
  /\ verifyToken = Str(S_secret)
  /\ gReq = NoRequest
  /\ gRes = NoResponse
  /\ InitPost(Reqs)

NextConc ==
  \/ \E r \in Reqs, d \in ConcBodies : Receive(r, d)
  \/ \E r \in Reqs, resp \in ConcResponses : AIReturn(r, resp)
  \/ \E r \in Reqs : InvoiceFinish(r)
  \/ \E r \in Reqs : WriteError(r)
  \/ \E r \in Reqs, ok \in BOOLEAN : NotifyReturn(r, ok)
  \/ Tick

SpecConc == InitConc /\ [][NextConc]_vars

\* One GET verification request, with every combination of the parameters.
InitVerify ==
  /\ variant \in Variants
  /\ verifyToken = Str(S_secret)
  /\ gReq \in [mode : QueryValues({S_subscribe, S_unsubscribe}),
               token : QueryValues({S_secret, S_wrong}),
               challenge : QueryValues({S_challenge})]
  /\ gRes = NoResponse
  /\ InitPost({})

NextVerify == Verify

SpecVerify == InitVerify /\ [][NextVerify]_vars

\* ------------------------------------------------------------------ claims
\* The delivery has passed the model's answer and the pricing that follows.
Decided(r) == pc[r] \in {"awaitInvoice", "awaitNotify", "done"} /\ aiCalls[r] = 1

\* The extractor returned a candidate order: an object.
Candidate(r) == Decided(r) /\ parsed[r].t = "object"

FinitePositive(q) == q.t = "number" /\ q.v > 0

\* The spellings of the catalog names, and the price each resolves to.
SugarSpellings == {S_sugar, S_Sugar, S_SUGAR}
OilSpellings == {S_oil, S_OIL}
RiceSpellings == {S_rice, S_Rice}
CatalogSpellings == SugarSpellings \cup OilSpellings \cup RiceSpellings

ListedPrice(name) ==
  CASE name \in SugarSpellings -> 40
    [] name \in OilSpellings -> 120
    [] name \in RiceSpellings -> 60

NamesCatalogEntry(p) ==
  Get(p, "product").t = "string" /\ Get(p, "product").s \in CatalogSpellings

MessagesOf(r) == SelectSeq(sent, LAMBDA m : m.by = r)

FilesOf(r) == {f \in files : f.by = r}

\* C1: a candidate order (an object with a product name) whose quantity is
\* missing, non-numeric, non-finite, zero or negative never reaches the Priced
\* outcome, and its processing ends in the InvalidQuantity outcome, whatever
\* the product name.
C1_InvalidQuantityRejected ==
  \A r \in Reqs :
    (Candidate(r) /\ Get(parsed[r], "product").t = "string"
       /\ ~FinitePositive(Get(parsed[r], "quantity")))
      => /\ outcome[r] # "Priced"
         /\ order[r] = Undefined
         /\ pc[r] = "done" => outcome[r] = "InvalidQuantity"

\* The answer of the model was unusable: the call failed, the text was not
\* JSON, or the JSON is no object with product, quantity and unit.
Unusable(p) ==
  \/ p.t # "object"
  \/ ~({"product", "quantity", "unit"} \subseteq DOMAIN p.f)

\* C2: whenever the model's answer is unusable (service error, non-JSON text,
\* JSON that is no object or lacks product, quantity or unit), the delivery
\* ends in ExtractionFailed: the sender is sent the not-understood text and
\* no fault reaches the catch block.
C2_BadAnswerIsExtractionFailed ==
  \A r \in Reqs :
    (Decided(r) /\ Unusable(parsed[r]))
      => (outcome[r] = "ExtractionFailed"
          /\ pending[r].lit = "Sorry, I couldn't understand the order.")

\* C3: a candidate order whose product name is, in no letter case, one of
\* sugar, oil, rice ends in ProductNotFound: the not-found text is sent and
\* no order is built.
C3_UnknownProductNotFound ==
  \A r \in Reqs :
    (Candidate(r) /\ Get(parsed[r], "product").t = "string"
       /\ Get(parsed[r], "product").s \notin CatalogSpellings)
      => (outcome[r] = "ProductNotFound"
          /\ order[r] = Undefined
          /\ pending[r].lit = "Product not found.")

\* C4: an order object exists (and with it an invoice or a confirmation) only
\* when the product name matched a catalog entry and the quantity is a finite
\* number greater than zero.
C4_PricedOrderIsValid ==
  \A r \in Reqs :
    (order[r] # Undefined \/ FilesOf(r) # {} \/ pending[r].type = "document")
      => (NamesCatalogEntry(parsed[r])
          /\ FinitePositive(Get(parsed[r], "quantity")))

\* A query parameter that was not supplied, or supplied empty.
Absent(v) == v = Undefined \/ v = Str(<< >>)

\* C5: GET verification answers 200 with the challenge as body when mode is
\* "subscribe" and the token is the configured secret, 403 when mode and
\* token are both present but do not verify, and 400 when mode or token is
\* absent.
C5_VerificationDecision ==
  gRes.status # 0 =>
    IF Absent(gReq.mode) \/ Absent(gReq.token)
    THEN gRes.status = 400
    ELSE IF gReq.mode = Str(S_subscribe) /\ gReq.token = verifyToken
    THEN gRes.status = 200 /\ gRes.body = gReq.challenge
    ELSE gRes.status = 403

\* body.entry[0].changes[0].value.messages[0], undefined where the path ends.
MessageAt(d) ==
  First(Get(Get(First(Get(First(Get(d, "entry")), "changes")), "value"),
            "messages"))

\* C6: a delivery without entry[0].changes[0].value.messages[0] is answered
\* 200 and nothing else happens: no call to the model, no invoice, no message.
C6_NoMessageAcknowledged ==
  \A r \in Reqs :
    (pc[r] \notin {"off", "start"} /\ MessageAt(data[r]) = Undefined)
      => (status[r] = 200 /\ responses[r] = 1 /\ aiCalls[r] = 0
          /\ FilesOf(r) = {} /\ MessagesOf(r) = << >>)

Failures == {"ExtractionFailed", "ProductNotFound", "InvalidQuantity"}

\* C7: a delivery that ended in ExtractionFailed, ProductNotFound or
\* InvalidQuantity and whose notification succeeded has been answered 200,
\* once; exactly one message went to the sender, with the text of that
\* outcome and of no other; no order, invoice or confirmation exists.
C7_FailureStopsThePipeline ==
  \A r \in Reqs :
    (outcome[r] \in Failures /\ notified[r] = "ok")
      => /\ pc[r] = "done"
         /\ status[r] = 200
         /\ responses[r] = 1
         /\ Len(MessagesOf(r)) = 1
         /\ MessagesOf(r)[1].msg.type = "text"
         /\ MessagesOf(r)[1].msg.to = Get(MessageAt(data[r]), "from")
         /\ (MessagesOf(r)[1].msg.lit = "Sorry, I couldn't understand the order.")
              <=> (outcome[r] = "ExtractionFailed")
         /\ (MessagesOf(r)[1].msg.lit = "Product not found.")
              <=> (outcome[r] = "ProductNotFound")
         /\ order[r] = Undefined
         /\ FilesOf(r) = {}

\* A product-not-found delivery whose notification succeeded.
C7_Witness ==
  \E r \in Reqs :
    /\ outcome[r] = "ProductNotFound"
    /\ notified[r] = "ok"
    /\ Get(parsed[r], "product") = Str(S_flour)

\* C8: a candidate order that names a catalog entry in any letter case, with
\* a finite positive quantity, is priced: unitPrice is the entry's price,
\* total is unitPrice * quantity, and these values are what the invoice and
\* the confirmation carry.
C8_PricedAtCatalogPrice ==
  \A r \in Reqs :
    (Candidate(r) /\ NamesCatalogEntry(parsed[r])
       /\ FinitePositive(Get(parsed[r], "quantity")))
      => LET name == Get(parsed[r], "product")
             qty == Get(parsed[r], "quantity")
             price == ListedPrice(name.s)
         IN  /\ outcome[r] = "Priced"
             /\ Get(order[r], "price") = Num(price)
             /\ Get(order[r], "total") = Num(price * qty.v)
             /\ \E f \in FilesOf(r) :
                  /\ f.name = fileName[r]
                  /\ f.lines = << name, qty, Get(parsed[r], "unit"),
                                  Num(price), Num(price * qty.v) >>
             /\ (pc[r] \in {"awaitNotify", "done"} /\ variant = "A")
                  => pending[r].args = << name, Num(price * qty.v) >>
             /\ (pc[r] \in {"awaitNotify", "done"} /\ variant = "B")
                  => pending[r].args = << Str(fileName[r]) >>
             /\ notified[r] = "ok"
                  => MessagesOf(r) = << [by |-> r, msg |-> pending[r]] >>

\* "SUGAR" x 2 priced at 40, total 80, and the confirmation delivered.
C8_Witness ==
  \E r \in Reqs :
    /\ Get(parsed[r], "product") = Str(S_SUGAR)
    /\ Get(parsed[r], "quantity") = Num(2)
    /\ Get(order[r], "total") = Num(80)
    /\ notified[r] = "ok"
    /\ status[r] = 200

\* C9: every delivery the handler took up is answered exactly once; none is
\* left without a response when nothing more can happen to it, whether the
\* invoice file was written or writing it failed.
C9_EveryDeliveryAnswered ==
  \A r \in Reqs :
    (pc[r] \notin {"off", "start"} /\ (crashed \/ pc[r] = "done"))
      => responses[r] = 1

\* C10: two deliveries that both reached the rendering of an invoice use
\* different file names.
C10_DistinctInvoiceFiles ==
  \A r1 \in Reqs, r2 \in Reqs :
    (r1 # r2 /\ fileName[r1] # << >> /\ fileName[r2] # << >>)
      => fileName[r1] # fileName[r2]

====
